---- MODULE Spec2Model ----
(***************************************************************************)
(* Model of the XSS scanning engine of src/utils.py (class XSSScanner):    *)
(* the rule catalog and its compilation, the comment filter, the line      *)
(* scanner and scan_code with its truncation and result cap.               *)
(*                                                                         *)
(* Text is a sequence of one-character strings.  Positions are 1-based;    *)
(* a match is a pair <<start, end>> with end exclusive, so the Python      *)
(* offset of a match is start - 1 and an empty match has start = end.      *)
(* In the comments \x22 stands for the double quote character.             *)
(***************************************************************************)
EXTENDS Integers, Sequences, FiniteSets, TLC

\* ------------------------------------------------------------------------
\* Bounds of the model
\* ------------------------------------------------------------------------

\* scaled-down value of self.max_code_length (50000 in the source)
MaxCodeLength == 5

\* characters the input text is built from
Alphabet == {"a", " ", "\n"}

\* length of the texts, and alphabet, of the specifications that pair two
\* scans or inject a fault
MaxSmallLen == 2

SmallAlphabet == {"a", "\n"}

\* the sequences over alphabet of length at most n
Texts(alphabet, n) == UNION {[1..k -> alphabet] : k \in 0..n}

\* number of lines of the texts made of one repeated line
MaxLines == 52

\* n copies of line, one per line of the text
RECURSIVE Repeat(_, _)
Repeat(line, n) ==
  IF n = 0 THEN <<>>
  ELSE IF n = 1 THEN line
  ELSE line \o <<"\n">> \o Repeat(line, n - 1)

\* the repeated lines: a call of eval, a plain word, a call of write
SampleLines ==
  {<<"e", "v", "a", "l", "(", "a", ")", ";">>,
   <<"a">>,
   <<"a", ".", "w", "r", "i", "t", "e", "(", "a", ")">>}

LineTexts == {Repeat(line, n) : line \in SampleLines, n \in 0..MaxLines}

\* the short texts, and a text of three lines
SmallTexts == Texts(SmallAlphabet, MaxSmallLen) \cup {Repeat(<<"a">>, 3)}

\* the lines of the example texts
\* // x.innerHTML = a;
CommentedLine ==
  <<"/", "/", " ", "x", ".", "i", "n", "n", "e", "r", "H", "T", "M", "L",
  " ", "=", " ", "a", ";">>

\*   // x.innerHTML = a;
IndentedCommentedLine ==
  <<" ", " ", "/", "/", " ", "x", ".", "i", "n", "n", "e", "r", "H", "T",
  "M", "L", " ", "=", " ", "a", ";">>

\* x.innerHTML = a;
AssignmentLine ==
  <<"x", ".", "i", "n", "n", "e", "r", "H", "T", "M", "L", " ", "=", " ",
  "a", ";">>

\* document.getElementById(\x22content\x22).innerHTML = userInput;
BasicLine ==
  <<"d", "o", "c", "u", "m", "e", "n", "t", ".", "g", "e", "t", "E", "l",
  "e", "m", "e", "n", "t", "B", "y", "I", "d", "(", "\"", "c", "o", "n",
  "t", "e", "n", "t", "\"", ")", ".", "i", "n", "n", "e", "r", "H", "T",
  "M", "L", " ", "=", " ", "u", "s", "e", "r", "I", "n", "p", "u", "t",
  ";">>

\* document.getElementById(\x22content\x22).textContent = userInput;
TextContentLine ==
  <<"d", "o", "c", "u", "m", "e", "n", "t", ".", "g", "e", "t", "E", "l",
  "e", "m", "e", "n", "t", "B", "y", "I", "d", "(", "\"", "c", "o", "n",
  "t", "e", "n", "t", "\"", ")", ".", "t", "e", "x", "t", "C", "o", "n",
  "t", "e", "n", "t", " ", "=", " ", "u", "s", "e", "r", "I", "n", "p",
  "u", "t", ";">>

\* <p>console.log(1)</p>
MarkupLine ==
  <<"<", "p", ">", "c", "o", "n", "s", "o", "l", "e", ".", "l", "o", "g",
  "(", "1", ")", "<", "/", "p", ">">>

\* var code = \x22x.innerHTML = a;\x22;
LiteralLine ==
  <<"v", "a", "r", " ", "c", "o", "d", "e", " ", "=", " ", "\"", "x", ".",
  "i", "n", "n", "e", "r", "H", "T", "M", "L", " ", "=", " ", "a", ";",
  "\"", ";">>

\* /* a
CommentOpenLine ==
  <<"/", "*", " ", "a">>

\* */
CommentCloseLine ==
  <<"*", "/">>

\* the short lines, which the example texts combine
ExampleLines ==
  {CommentedLine, IndentedCommentedLine, AssignmentLine, MarkupLine,
   LiteralLine, CommentOpenLine, CommentCloseLine}

\* number of lines of the example texts
MaxExampleLines == 2

\* the lines of ls, one per line of the text
RECURSIVE Joined(_)
Joined(ls) ==
  IF ls = <<>> THEN <<>>
  ELSE IF Len(ls) = 1 THEN ls[1]
  ELSE ls[1] \o <<"\n">> \o Joined(Tail(ls))

\* the example texts: up to MaxExampleLines short lines, each long line
\* alone, and an assignment inside a block comment that spans three lines
ExampleTexts ==
  {Joined(ls) : ls \in Texts(ExampleLines, MaxExampleLines)}
    \cup {BasicLine, TextContentLine}
    \cup {Joined(<<CommentOpenLine, AssignmentLine, CommentCloseLine>>)}

\* ------------------------------------------------------------------------
\* Characters, str.strip and str.splitlines
\* ------------------------------------------------------------------------

Whitespace == {" ", "\t", "\n", "\r", "\f"}

LineBreaks == {"\n", "\r", "\f"}

Digits == {"0", "1", "2", "3", "4", "5", "6", "7", "8", "9"}

LowerLetters ==
  {"a", "b", "c", "d", "e", "f", "g", "h", "i", "j", "k", "l", "m",
   "n", "o", "p", "q", "r", "s", "t", "u", "v", "w", "x", "y", "z"}

UpperToLower ==
  [c \in {"A", "B", "C", "D", "E", "F", "G", "H", "I", "J", "K", "L", "M",
          "N", "O", "P", "Q", "R", "S", "T", "U", "V", "W", "X", "Y", "Z"} |->
     CASE c = "A" -> "a" [] c = "B" -> "b" [] c = "C" -> "c" [] c = "D" -> "d"
       [] c = "E" -> "e" [] c = "F" -> "f" [] c = "G" -> "g" [] c = "H" -> "h"
       [] c = "I" -> "i" [] c = "J" -> "j" [] c = "K" -> "k" [] c = "L" -> "l"
       [] c = "M" -> "m" [] c = "N" -> "n" [] c = "O" -> "o" [] c = "P" -> "p"
       [] c = "Q" -> "q" [] c = "R" -> "r" [] c = "S" -> "s" [] c = "T" -> "t"
       [] c = "U" -> "u" [] c = "V" -> "v" [] c = "W" -> "w" [] c = "X" -> "x"
       [] c = "Y" -> "y" [] c = "Z" -> "z"]

\* \w of the re module
WordChars == LowerLetters \cup DOMAIN UpperToLower \cup Digits \cup {"_"}

\* case folding of re.IGNORECASE
Fold(c) == IF c \in DOMAIN UpperToLower THEN UpperToLower[c] ELSE c

Min(S) == CHOOSE x \in S : \A y \in S : x <= y

Max(S) == CHOOSE x \in S : \A y \in S : x >= y

\* code[:n]
Prefix(s, n) == SubSeq(s, 1, IF n < Len(s) THEN n ELSE Len(s))

\* str.strip(): drop leading and trailing whitespace
Strip(s) ==
  LET keep == {i \in 1..Len(s) : s[i] \notin Whitespace}
  IN  IF keep = {} THEN <<>> ELSE SubSeq(s, Min(keep), Max(keep))

\* str.splitlines(): split at line boundaries (CR LF is one boundary),
\* boundaries are dropped and a final boundary opens no further line.
\* SplitAt: b is the position of the first boundary of s.
RECURSIVE SplitLines(_)
SplitAt(s, b) ==
  <<SubSeq(s, 1, b - 1)>>
    \o SplitLines(SubSeq(s, (IF s[b] = "\r" /\ b < Len(s) /\ s[b + 1] = "\n"
                             THEN b + 2 ELSE b + 1), Len(s)))

SplitLines(s) ==
  IF Len(s) = 0 THEN <<>>
  ELSE IF \A i \in 1..Len(s) : s[i] \notin LineBreaks THEN <<s>>
  ELSE SplitAt(s, Min({i \in 1..Len(s) : s[i] \in LineBreaks}))

\* ------------------------------------------------------------------------
\* Regular expressions: syntax trees and the matcher of the re module
\* ------------------------------------------------------------------------

\* one character out of cs
Set(cs) == [k |-> "set", neg |-> FALSE, chars |-> cs]

\* one character not in cs; NotSet({}) is the dot under re.DOTALL
NotSet(cs) == [k |-> "set", neg |-> TRUE, chars |-> cs]

Dot == NotSet({})

\* x* (min = 0) and x+ (min = 1) of a character set, greedy
Rep(set, min) == [k |-> "rep", neg |-> set.neg, chars |-> set.chars, min |-> min, lazy |-> FALSE]

\* x*? and x+? of a character set
LazyRep(set, min) == [k |-> "rep", neg |-> set.neg, chars |-> set.chars, min |-> min, lazy |-> TRUE]

\* (a|b|...) : alts is a sequence of node sequences
Alt(alts) == [k |-> "alt", alts |-> alts]

\* ^ (without re.MULTILINE)
Bol == [k |-> "bol"]

\* (?<!body)
NegLookbehind(body) == [k |-> "lookbehind", body |-> body]

\* a literal string
Str(cs) == [i \in 1..Len(cs) |-> Set({cs[i]})]

\* does character c belong to the character set node h, ignoring case
InSet(h, c) == (Fold(c) \in {Fold(x) : x \in h.chars}) # h.neg

\* number of consecutive characters of s from position i that belong to h
RECURSIVE RunLen(_, _, _)
RunLen(h, s, i) ==
  IF i <= Len(s) /\ InSet(h, s[i]) THEN 1 + RunLen(h, s, i + 1) ELSE 0

\* width of a node sequence, or -1 when it has no fixed width
RECURSIVE Width(_)
Width(nodes) ==
  IF Len(nodes) = 0 THEN 0
  ELSE LET h == Head(nodes)
           w == CASE h.k = "set" -> 1
                  [] h.k = "rep" -> -1
                  [] h.k = "alt" ->
                       LET ws == {Width(h.alts[a]) : a \in 1..Len(h.alts)}
                       IN  IF Cardinality(ws) = 1 /\ -1 \notin ws
                           THEN CHOOSE x \in ws : TRUE ELSE -1
                  [] OTHER -> 0
           r == Width(Tail(nodes))
       IN  IF w = -1 \/ r = -1 THEN -1 ELSE w + r

\* re.compile accepts a pattern unless a look-behind has no fixed width
\* (error: look-behind requires fixed-width pattern)
RECURSIVE Compiles(_)
Compiles(nodes) ==
  \A n \in 1..Len(nodes) :
    CASE nodes[n].k = "lookbehind" -> Width(nodes[n].body) # -1 /\ Compiles(nodes[n].body)
      [] nodes[n].k = "alt" -> \A a \in 1..Len(nodes[n].alts) : Compiles(nodes[n].alts[a])
      [] OTHER -> TRUE

\* The first (lazy: x*?, alternation) or the last (greedy) candidate that
\* leads to a match: ends maps each candidate to the end of the match it
\* leads to, 0 for none
PickEnd(ends, first) ==
  LET ok == {j \in DOMAIN ends : ends[j] # 0}
  IN  IF ok = {} THEN 0 ELSE ends[IF first THEN Min(ok) ELSE Max(ok)]

\* End (exclusive) of the match of nodes that starts at position i of s, in
\* the priority order of a backtracking matcher, or 0 when there is none.
\* ban is an end position the whole match must not have (0: none).
RECURSIVE MatchEnd(_, _, _, _)
MatchEnd(nodes, s, i, ban) ==
  IF Len(nodes) = 0 THEN (IF i = ban THEN 0 ELSE i)
  ELSE LET h == Head(nodes)
           rest == Tail(nodes)
       IN  CASE h.k = "set" ->
                  IF i <= Len(s) /\ InSet(h, s[i])
                  THEN MatchEnd(rest, s, i + 1, ban) ELSE 0
             [] h.k = "rep" ->
                  PickEnd([j \in h.min..RunLen(h, s, i) |-> MatchEnd(rest, s, i + j, ban)],
                          h.lazy)
             [] h.k = "alt" ->
                  PickEnd([a \in 1..Len(h.alts) |-> MatchEnd(h.alts[a] \o rest, s, i, ban)],
                          TRUE)
             [] h.k = "bol" ->
                  IF i = 1 THEN MatchEnd(rest, s, i, ban) ELSE 0
             [] h.k = "lookbehind" ->
                  IF /\ i - Width(h.body) >= 1
                     /\ MatchEnd(h.body, SubSeq(s, 1, i - 1), i - Width(h.body), 0) = i
                  THEN 0 ELSE MatchEnd(rest, s, i, ban)

\* the leftmost start with a match, as <<start, end>>, or <<0, 0>>: ends maps
\* each start to the end of the match from it, 0 for none
Leftmost(ends) ==
  LET ok == {p \in DOMAIN ends : ends[p] # 0}
  IN  IF ok = {} THEN <<0, 0>> ELSE <<Min(ok), ends[Min(ok)]>>

\* pattern.search from position pos: the leftmost match <<start, end>>, or
\* <<0, 0>>.  advance: the previous match was empty, so a match starting at
\* pos must not be empty.
SearchFrom(nodes, s, pos, advance) ==
  Leftmost([p \in pos..(Len(s) + 1) |->
              MatchEnd(nodes, s, p, IF advance /\ p = pos THEN p ELSE 0)])

\* pattern.finditer(s): the non-overlapping matches from left to right; the
\* search after a match <<start, end>> starts at end
RECURSIVE FindIterFrom(_, _, _, _)
FindIterAfter(nodes, s, m) ==
  IF m[1] = 0 THEN <<>>
  ELSE <<m>> \o FindIterFrom(nodes, s, m[2], m[1] = m[2])

FindIterFrom(nodes, s, pos, advance) ==
  FindIterAfter(nodes, s, SearchFrom(nodes, s, pos, advance))

FindIter(nodes, s) == FindIterFrom(nodes, s, 1, FALSE)

\* re.search(pattern, s) finds a match
Search(nodes, s) == SearchFrom(nodes, s, 1, FALSE)[1] # 0

\* ------------------------------------------------------------------------
\* The rule catalog (_get_vulnerability_patterns)
\* ------------------------------------------------------------------------

\* (?<!//.*)\.innerHTML\s*=\s*[^;]+
Pat_innerHTML_assignment ==
  <<NegLookbehind(<<Set({"/"}), Set({"/"}), Rep(Dot, 0)>>)>>
    \o Str(<<".", "i", "n", "n", "e", "r", "H", "T", "M", "L">>)
    \o <<Rep(Set(Whitespace), 0), Set({"="}), Rep(Set(Whitespace), 0), Rep(NotSet({";"}), 1)>>

\* (?<!//.*)document\.write\s*\([^)]*\)
Pat_document_write_call ==
  <<NegLookbehind(<<Set({"/"}), Set({"/"}), Rep(Dot, 0)>>)>>
    \o Str(<<"d", "o", "c", "u", "m", "e", "n", "t", ".", "w", "r", "i", "t", "e">>)
    \o <<Rep(Set(Whitespace), 0), Set({"("}), Rep(NotSet({")"}), 0), Set({")"})>>

\* (?<!//.*)eval\s*\([^)]*\)
Pat_eval_function_call ==
  <<NegLookbehind(<<Set({"/"}), Set({"/"}), Rep(Dot, 0)>>)>>
    \o Str(<<"e", "v", "a", "l">>)
    \o <<Rep(Set(Whitespace), 0), Set({"("}), Rep(NotSet({")"}), 0), Set({")"})>>

\* (?<!//.*)location\.hash
Pat_location_hash_usage ==
  <<NegLookbehind(<<Set({"/"}), Set({"/"}), Rep(Dot, 0)>>)>>
    \o Str(<<"l", "o", "c", "a", "t", "i", "o", "n", ".", "h", "a", "s", "h">>)

\* <script[^>]*>.*?</script>
Pat_script_tag_injection ==
  Str(<<"<", "s", "c", "r", "i", "p", "t">>)
    \o <<Rep(NotSet({">"}), 0), Set({">"}), LazyRep(Dot, 0)>>
    \o Str(<<"<", "/", "s", "c", "r", "i", "p", "t", ">">>)

\* on\w+\s*=\s*['\x22][^'\x22]*['\x22]
Pat_on_event_handler ==
  Str(<<"o", "n">>)
    \o <<Rep(Set(WordChars), 1)>>
    \o <<Rep(Set(Whitespace), 0), Set({"="}), Rep(Set(Whitespace), 0), Set({"'", "\""}), Rep(NotSet({"'", "\""}), 0), Set({"'", "\""})>>

\* javascript:\s*[^\x22\'\s]+
Pat_javascript_protocol ==
  Str(<<"j", "a", "v", "a", "s", "c", "r", "i", "p", "t", ":">>)
    \o <<Rep(Set(Whitespace), 0), Rep(NotSet({"\"", "'"} \cup Whitespace), 1)>>

\* (?<!//.*)\.innerHTML\s*=\s*.*(\+.*userInput|\+.*req\.body|\+.*req\.query)
Pat_unescaped_user_input ==
  <<NegLookbehind(<<Set({"/"}), Set({"/"}), Rep(Dot, 0)>>)>>
    \o Str(<<".", "i", "n", "n", "e", "r", "H", "T", "M", "L">>)
    \o <<Rep(Set(Whitespace), 0), Set({"="}), Rep(Set(Whitespace), 0), Rep(Dot, 0)>>
    \o <<Alt(<<<<Set({"+"}), Rep(Dot, 0)>> \o Str(<<"u", "s", "e", "r", "I", "n", "p", "u", "t">>),
              <<Set({"+"}), Rep(Dot, 0)>> \o Str(<<"r", "e", "q", ".", "b", "o", "d", "y">>),
              <<Set({"+"}), Rep(Dot, 0)>> \o Str(<<"r", "e", "q", ".", "q", "u", "e", "r", "y">>)>>)>>

\* (?<!//.*)\.src\s*=\s*['\x22][^'\x22]*['\x22]
Pat_dangerous_src_assignment ==
  <<NegLookbehind(<<Set({"/"}), Set({"/"}), Rep(Dot, 0)>>)>>
    \o Str(<<".", "s", "r", "c">>)
    \o <<Rep(Set(Whitespace), 0), Set({"="}), Rep(Set(Whitespace), 0), Set({"'", "\""}), Rep(NotSet({"'", "\""}), 0), Set({"'", "\""})>>

\* (?<!//.*)\.href\s*=\s*['\x22][^'\x22]*['\x22]
Pat_dangerous_href_assignment ==
  <<NegLookbehind(<<Set({"/"}), Set({"/"}), Rep(Dot, 0)>>)>>
    \o Str(<<".", "h", "r", "e", "f">>)
    \o <<Rep(Set(Whitespace), 0), Set({"="}), Rep(Set(Whitespace), 0), Set({"'", "\""}), Rep(NotSet({"'", "\""}), 0), Set({"'", "\""})>>

\* GRAVE.*\$\{[^}]+\}.*GRAVE   (the string \x22GRAVE\x22 stands for the grave accent character)
Pat_template_literal_injection ==
  <<Set({"GRAVE"}), Rep(Dot, 0), Set({"$"}), Set({"{"}), Rep(NotSet({"}"}), 1), Set({"}"}), Rep(Dot, 0), Set({"GRAVE"})>>

\* (?<!//.*)insertAdjacentHTML\s*\([^)]*\)
Pat_insertAdjacentHTML_call ==
  <<NegLookbehind(<<Set({"/"}), Set({"/"}), Rep(Dot, 0)>>)>>
    \o Str(<<"i", "n", "s", "e", "r", "t", "A", "d", "j", "a", "c", "e", "n", "t", "H", "T", "M", "L">>)
    \o <<Rep(Set(Whitespace), 0), Set({"("}), Rep(NotSet({")"}), 0), Set({")"})>>

\* (?<!//.*)\.outerHTML\s*=\s*[^;]+
Pat_outerHTML_assignment ==
  <<NegLookbehind(<<Set({"/"}), Set({"/"}), Rep(Dot, 0)>>)>>
    \o Str(<<".", "o", "u", "t", "e", "r", "H", "T", "M", "L">>)
    \o <<Rep(Set(Whitespace), 0), Set({"="}), Rep(Set(Whitespace), 0), Rep(NotSet({";"}), 1)>>

\* (?<!//.*)setAttribute\s*\(\s*['\x22](?:src|href|onclick|onload)['\x22]\s*,
Pat_dangerous_setAttribute ==
  <<NegLookbehind(<<Set({"/"}), Set({"/"}), Rep(Dot, 0)>>)>>
    \o Str(<<"s", "e", "t", "A", "t", "t", "r", "i", "b", "u", "t", "e">>)
    \o <<Rep(Set(Whitespace), 0), Set({"("}), Rep(Set(Whitespace), 0), Set({"'", "\""})>>
    \o <<Alt(<<Str(<<"s", "r", "c">>), Str(<<"h", "r", "e", "f">>),
              Str(<<"o", "n", "c", "l", "i", "c", "k">>), Str(<<"o", "n", "l", "o", "a", "d">>)>>)>>
    \o <<Set({"'", "\""}), Rep(Set(Whitespace), 0), Set({","})>>

\* (?<!//.*)createElement\s*\(\s*['\x22]script['\x22]\s*\)
Pat_dangerous_createElement ==
  <<NegLookbehind(<<Set({"/"}), Set({"/"}), Rep(Dot, 0)>>)>>
    \o Str(<<"c", "r", "e", "a", "t", "e", "E", "l", "e", "m", "e", "n", "t">>)
    \o <<Rep(Set(Whitespace), 0), Set({"("}), Rep(Set(Whitespace), 0), Set({"'", "\""})>>
    \o Str(<<"s", "c", "r", "i", "p", "t">>)
    \o <<Set({"'", "\""}), Rep(Set(Whitespace), 0), Set({")"})>>

\* (?<!//.*)\.write\s*\([^)]*\)
Pat_dangerous_write ==
  <<NegLookbehind(<<Set({"/"}), Set({"/"}), Rep(Dot, 0)>>)>>
    \o Str(<<".", "w", "r", "i", "t", "e">>)
    \o <<Rep(Set(Whitespace), 0), Set({"("}), Rep(NotSet({")"}), 0), Set({")"})>>

\* (?<!//.*)\.writeln\s*\([^)]*\)
Pat_dangerous_writeln ==
  <<NegLookbehind(<<Set({"/"}), Set({"/"}), Rep(Dot, 0)>>)>>
    \o Str(<<".", "w", "r", "i", "t", "e", "l", "n">>)
    \o <<Rep(Set(Whitespace), 0), Set({"("}), Rep(NotSet({")"}), 0), Set({")"})>>

\* The catalog, in dictionary (insertion) order.  A pattern is kept as its
\* text (with GRAVE for the grave accent); Parse gives its syntax tree.
get_vulnerability_patterns ==
  <<[name |-> "innerHTML_assignment",
     pattern |-> "(?<!//.*)\\.innerHTML\\s*=\\s*[^;]+"],
    [name |-> "document_write_call",
     pattern |-> "(?<!//.*)document\\.write\\s*\\([^)]*\\)"],
    [name |-> "eval_function_call",
     pattern |-> "(?<!//.*)eval\\s*\\([^)]*\\)"],
    [name |-> "location_hash_usage",
     pattern |-> "(?<!//.*)location\\.hash"],
    [name |-> "script_tag_injection",
     pattern |-> "<script[^>]*>.*?</script>"],
    [name |-> "on_event_handler",
     pattern |-> "on\\w+\\s*=\\s*['\\\"][^'\\\"]*['\\\"]"],
    [name |-> "javascript_protocol",
     pattern |-> "javascript:\\s*[^\\\"\\'\\s]+"],
    [name |-> "unescaped_user_input",
     pattern |-> "(?<!//.*)\\.innerHTML\\s*=\\s*.*(\\+.*userInput|\\+.*req\\.body|\\+.*req\\.query)"],
    [name |-> "dangerous_src_assignment",
     pattern |-> "(?<!//.*)\\.src\\s*=\\s*['\\\"][^'\\\"]*['\\\"]"],
    [name |-> "dangerous_href_assignment",
     pattern |-> "(?<!//.*)\\.href\\s*=\\s*['\\\"][^'\\\"]*['\\\"]"],
    [name |-> "template_literal_injection",
     pattern |-> "GRAVE.*\\$\\{[^}]+\\}.*GRAVE"],
    [name |-> "insertAdjacentHTML_call",
     pattern |-> "(?<!//.*)insertAdjacentHTML\\s*\\([^)]*\\)"],
    [name |-> "outerHTML_assignment",
     pattern |-> "(?<!//.*)\\.outerHTML\\s*=\\s*[^;]+"],
    [name |-> "dangerous_setAttribute",
     pattern |-> "(?<!//.*)setAttribute\\s*\\(\\s*['\\\"](?:src|href|onclick|onload)['\\\"]\\s*,"],
    [name |-> "dangerous_createElement",
     pattern |-> "(?<!//.*)createElement\\s*\\(\\s*['\\\"]script['\\\"]\\s*\\)"],
    [name |-> "dangerous_write",
     pattern |-> "(?<!//.*)\\.write\\s*\\([^)]*\\)"],
    [name |-> "dangerous_writeln",
     pattern |-> "(?<!//.*)\\.writeln\\s*\\([^)]*\\)"]>>

\* the text of the fallback pattern of _compile_patterns
FallbackPattern == ".*"

\* the syntax tree of each pattern text
ParseTable ==
  ("(?<!//.*)\\.innerHTML\\s*=\\s*[^;]+"
       :> Pat_innerHTML_assignment)
  @@ ("(?<!//.*)document\\.write\\s*\\([^)]*\\)"
       :> Pat_document_write_call)
  @@ ("(?<!//.*)eval\\s*\\([^)]*\\)"
       :> Pat_eval_function_call)
  @@ ("(?<!//.*)location\\.hash"
       :> Pat_location_hash_usage)
  @@ ("<script[^>]*>.*?</script>"
       :> Pat_script_tag_injection)
  @@ ("on\\w+\\s*=\\s*['\\\"][^'\\\"]*['\\\"]"
       :> Pat_on_event_handler)
  @@ ("javascript:\\s*[^\\\"\\'\\s]+"
       :> Pat_javascript_protocol)
  @@ ("(?<!//.*)\\.innerHTML\\s*=\\s*.*(\\+.*userInput|\\+.*req\\.body|\\+.*req\\.query)"
       :> Pat_unescaped_user_input)
  @@ ("(?<!//.*)\\.src\\s*=\\s*['\\\"][^'\\\"]*['\\\"]"
       :> Pat_dangerous_src_assignment)
  @@ ("(?<!//.*)\\.href\\s*=\\s*['\\\"][^'\\\"]*['\\\"]"
       :> Pat_dangerous_href_assignment)
  @@ ("GRAVE.*\\$\\{[^}]+\\}.*GRAVE"
       :> Pat_template_literal_injection)
  @@ ("(?<!//.*)insertAdjacentHTML\\s*\\([^)]*\\)"
       :> Pat_insertAdjacentHTML_call)
  @@ ("(?<!//.*)\\.outerHTML\\s*=\\s*[^;]+"
       :> Pat_outerHTML_assignment)
  @@ ("(?<!//.*)setAttribute\\s*\\(\\s*['\\\"](?:src|href|onclick|onload)['\\\"]\\s*,"
       :> Pat_dangerous_setAttribute)
  @@ ("(?<!//.*)createElement\\s*\\(\\s*['\\\"]script['\\\"]\\s*\\)"
       :> Pat_dangerous_createElement)
  @@ ("(?<!//.*)\\.write\\s*\\([^)]*\\)"
       :> Pat_dangerous_write)
  @@ ("(?<!//.*)\\.writeln\\s*\\([^)]*\\)"
       :> Pat_dangerous_writeln)
  @@ (FallbackPattern :> <<Rep(Dot, 0)>>)

Parse(pattern) == ParseTable[pattern]

\* ------------------------------------------------------------------------
\* The scanner: catalog construction (XSSScanner.__init__)
\* ------------------------------------------------------------------------

\* _compile_patterns: every rule keeps its name; a pattern re.compile rejects
\* (re.error) is replaced by the fallback pattern.  regex is the pattern text
\* of the compiled object.
compile_patterns(patterns) ==
  [r \in 1..Len(patterns) |->
     [name |-> patterns[r].name,
      regex |-> IF Compiles(Parse(patterns[r].pattern))
                THEN patterns[r].pattern ELSE FallbackPattern]]

\* self.max_code_length
SourceMaxCodeLength == 50000

\* self.max_vulnerabilities
MaxVulnerabilities == 50

\* _get_vulnerability_description
Descriptions ==
  [innerHTML_assignment |-> "Direct assignment to innerHTML can lead to XSS if user input is not sanitized",
   document_write_call |-> "document.write() can execute malicious scripts",
   eval_function_call |-> "eval() executes arbitrary code and is dangerous with user input",
   location_hash_usage |-> "location.hash can be manipulated by attackers",
   script_tag_injection |-> "Script tags can execute arbitrary JavaScript",
   on_event_handler |-> "Inline event handlers can be exploited for XSS",
   javascript_protocol |-> "javascript: URLs can execute malicious code",
   unescaped_user_input |-> "User input assigned to innerHTML without proper escaping",
   dangerous_src_assignment |-> "Dynamic src assignment can lead to script injection",
   dangerous_href_assignment |-> "Dynamic href assignment can lead to script injection",
   template_literal_injection |-> "Template literals with user input can lead to XSS",
   insertAdjacentHTML_call |-> "insertAdjacentHTML can execute malicious HTML",
   outerHTML_assignment |-> "Direct assignment to outerHTML can lead to XSS",
   dangerous_setAttribute |-> "Dynamic attribute setting can lead to XSS",
   dangerous_createElement |-> "Creating script elements dynamically can be dangerous",
   dangerous_write |-> "Document.write() can execute malicious scripts",
   dangerous_writeln |-> "Document.writeln() can execute malicious scripts"]

get_vulnerability_description(vulnerability_type) ==
  IF vulnerability_type \in DOMAIN Descriptions
  THEN Descriptions[vulnerability_type]
  ELSE "Potential XSS vulnerability detected"

\* ------------------------------------------------------------------------
\* The comment filter (_is_commented_line)
\* ------------------------------------------------------------------------

\* ^\s*//   ^\s*#   /\*.*\*/   <!--.*-->
comment_patterns ==
  << <<Bol, Rep(Set(Whitespace), 0), Set({"/"}), Set({"/"})>>,
     <<Bol, Rep(Set(Whitespace), 0), Set({"#"})>>,
     <<Set({"/"}), Set({"*"}), Rep(Dot, 0), Set({"*"}), Set({"/"})>>,
     Str(<<"<", "!", "-", "-">>) \o <<Rep(Dot, 0)>> \o Str(<<"-", "-", ">">>) >>

\* match_position is the 0-based offset of the match: the number of
\* characters of the line in front of it
commented_anywhere(line, match_position) ==
  \E p \in 1..Len(comment_patterns) : Search(comment_patterns[p], line)

commented_through(line, match_position) ==
  \E p \in 1..Len(comment_patterns) :
    Search(comment_patterns[p], Prefix(line, match_position + 1))

is_commented_line(line, match_position) ==
  LET text_before_match == Prefix(line, match_position)
  IN  \E p \in 1..Len(comment_patterns) : Search(comment_patterns[p], text_before_match)

\* ------------------------------------------------------------------------
\* The line scanner (_scan_line_for_vulnerabilities)
\* ------------------------------------------------------------------------

\* A fault of the environment: while line number flt.line is scanned, rule
\* number flt.rule raises an exception after flt.after of its matches have
\* been handled.  NoFault: nothing raises.
NoFault == [line |-> 0, rule |-> 0, after |-> 0]

Faults(lines, rules) ==
  [line : 1..lines, rule : 1..rules, after : 0..1]

\* the dictionary appended for one match <<start, end>> of rule name
finding(name, line, line_number, m) ==
  [line |-> line_number,
   vulnerability_type |-> name,
   snippet |-> Strip(SubSeq(line, m[1], m[2] - 1)),
   confidence |-> "medium",
   description |-> get_vulnerability_description(name)]

\* the dictionaries appended for the matches kept, in match order
findings(name, line, line_number, kept) ==
  [i \in 1..Len(kept) |-> finding(name, line, line_number, kept[i])]

\* the inner loop over the matches of one rule: a match whose start the
\* comment filter suppresses is skipped
match_findings(name, line, line_number, matches) ==
  findings(name, line, line_number,
           SelectSeq(matches, LAMBDA m : ~is_commented_line(line, m[1] - 1)))

\* the matches the inner loop handles when the rule raises (hit) after
\* `after` matches
handled(matches, hit, after) ==
  IF hit /\ after < Len(matches) THEN SubSeq(matches, 1, after) ELSE matches

\* the body of the try block for rule number r: the findings appended, and
\* whether the block was left by an exception
rule_findings(patterns, r, line, line_number, flt) ==
  [found |-> match_findings(patterns[r].name, line, line_number,
                            handled(FindIter(Parse(patterns[r].regex), line),
                                    flt.line = line_number /\ flt.rule = r, flt.after)),
   raised |-> flt.line = line_number /\ flt.rule = r]

\* the loop over the rules from rule number r on, in catalog order; an
\* exception of a rule is caught (logged) and the loop continues
RECURSIVE scan_rules_from(_, _, _, _, _)
scan_rules_from(patterns, r, line, line_number, flt) ==
  IF r > Len(patterns) THEN <<>>
  ELSE rule_findings(patterns, r, line, line_number, flt).found
         \o scan_rules_from(patterns, r + 1, line, line_number, flt)

\* a line scanner without the try block around a rule: the exception of a
\* rule leaves the function
scan_line_unguarded(patterns, line, line_number, flt) ==
  [found |-> <<>>, error |-> flt.line = line_number /\ flt.rule \in 1..Len(patterns)]

\* _scan_line_for_vulnerabilities: found_vulnerabilities, and whether an
\* exception leaves the function (none does: each is caught in the loop)
scan_line_for_vulnerabilities(patterns, line, line_number, flt) ==
  [found |-> scan_rules_from(patterns, 1, line, line_number, flt), error |-> FALSE]

\* ------------------------------------------------------------------------
\* scan_code as a state machine
\* ------------------------------------------------------------------------

VARIABLES
  vulnerability_patterns,  \* self.vulnerability_patterns
  compiled_patterns,       \* self.compiled_patterns
  max_code_length,         \* self.max_code_length
  max_vulnerabilities,     \* self.max_vulnerabilities
  pc,                      \* "idle", "loop", "done" (returned), "raised"
  input,                   \* the argument of the call
  code,                    \* the local code (after truncation)
  code_lines,              \* the local code_lines
  line_number,             \* the last line number enumerate produced
  all_vulnerabilities,     \* the local accumulator
  result,                  \* the dictionary returned
  scanned,                 \* the line numbers handed to the line scanner
  fault,                   \* the fault of the environment during this call
  prev,                    \* an earlier call and its findings, as observed
  calls,                   \* the locals of each of the concurrent invocations
  response,                \* what the handler of /scan returned
  probe,                   \* a call of _is_commented_line and its outcome
  request                  \* a code given to XSSScanRequest and the outcome

vars ==
  <<vulnerability_patterns, compiled_patterns, max_code_length,
    max_vulnerabilities, pc, input, code, code_lines, line_number,
    all_vulnerabilities, result, scanned, fault, prev, calls, response, probe,
    request>>

\* what a sequential call of scan_code does not touch
aside_vars == <<calls, response, probe, request>>

scanner_vars ==
  <<vulnerability_patterns, compiled_patterns, max_code_length, max_vulnerabilities>>

NoResult == [status |-> "none"]

NoPrev == [seen |-> FALSE, others |-> FALSE]

\* number of concurrent invocations of scan_code on the shared scanner
MaxInvocations == 2

Invocations == 1..MaxInvocations

\* the locals of an invocation that has not started
IdleCall ==
  [pc |-> "idle", input |-> <<>>, code |-> <<>>, code_lines |-> <<>>,
   line_number |-> 0, all_vulnerabilities |-> <<>>, result |-> NoResult,
   overlapped |-> FALSE]

NoCalls == [i \in Invocations |-> IdleCall]

NoProbe == [out |-> "none"]

NoRequest == [outcome |-> "none"]

\* a result whose count is cut at the cap while the list is not
capped_result(found) ==
  [status |-> "success",
   vulnerabilities_found |-> IF Len(found) > MaxVulnerabilities
                             THEN MaxVulnerabilities ELSE Len(found),
   vulnerabilities |-> found,
   message |-> <<"Scan completed. Found ", Len(found), " potential vulnerabilities.">>]

\* the dictionary built at the end of scan_code
build_result(found) ==
  [status |-> "success",
   vulnerabilities_found |-> Len(found),
   vulnerabilities |-> found,
   message |-> <<"Scan completed. Found ", Len(found), " potential vulnerabilities.">>]

\* a scan of the whole text, whatever its size
untruncated(text, limit) == text

\* the local code after the size limit
truncate(text, limit) ==
  IF Len(text) > limit THEN Prefix(text, limit) ELSE text

\* the findings of a line put in front of the accumulator
prepend(found, line_vulnerabilities) == line_vulnerabilities \o found

\* an accumulator that keeps the findings of the last line only
last_line_only(found, line_vulnerabilities) == line_vulnerabilities

\* the accumulator after the findings of one line
extend(found, line_vulnerabilities) == found \o line_vulnerabilities

\* a loop without early exit
never_reached(found, limit) == FALSE

\* an early exit test against twice the limit
double_limit_reached(found, limit) == Len(found) >= limit + limit

\* the early exit test of the loop
limit_reached(found, limit) == Len(found) >= limit

\* an accumulator kept from one call to the next
kept_accumulator(old) == old

\* the accumulator at the start of a call
fresh_accumulator(old) == <<>>

\* XSSScanner.__init__ and the global scanner instance, with the size limit
\* set to limit
InitWith(limit) ==
  /\ vulnerability_patterns = get_vulnerability_patterns
  /\ compiled_patterns = compile_patterns(get_vulnerability_patterns)
  /\ max_code_length = limit
  /\ max_vulnerabilities = MaxVulnerabilities
  /\ pc = "idle"
  /\ input = <<>>
  /\ code = <<>>
  /\ code_lines = <<>>
  /\ line_number = 0
  /\ all_vulnerabilities = <<>>
  /\ result = NoResult
  /\ scanned = <<>>
  /\ fault = NoFault
  /\ prev = NoPrev
  /\ calls = NoCalls
  /\ response = NoResult

\* the scanner with the scaled-down size limit
Init == InitWith(MaxCodeLength) /\ probe = NoProbe /\ request = NoRequest

\* the scanner with the size limit of the source
InitLines == InitWith(SourceMaxCodeLength) /\ probe = NoProbe /\ request = NoRequest

\* scan_code(text) is called: size limit, split, empty accumulator
Call(text, flt) ==
  /\ pc \in {"idle", "done", "raised"}
  /\ input' = text
  /\ fault' = flt
  /\ code' = truncate(text, max_code_length)
  /\ code_lines' = SplitLines(code')
  /\ all_vulnerabilities' = fresh_accumulator(all_vulnerabilities)
  /\ line_number' = 0
  /\ scanned' = <<>>
  /\ result' = NoResult
  /\ pc' = "loop"
  /\ prev' = IF prev.seen /\ text # prev.code THEN [prev EXCEPT !.others = TRUE] ELSE prev
  /\ UNCHANGED <<scanner_vars, aside_vars>>

\* the effect of the line scanner's outcome for line n: the findings are
\* appended; an exception would leave scan_code through its except clause
TakeLine(n, out) ==
  /\ line_number' = n
  /\ scanned' = Append(scanned, n)
  /\ IF out.error
     THEN /\ pc' = "raised"
          /\ UNCHANGED all_vulnerabilities
     ELSE /\ pc' = "loop"
          /\ all_vulnerabilities' = extend(all_vulnerabilities, out.found)

\* one iteration of the loop that scans a line
ScanLine ==
  /\ pc = "loop"
  /\ line_number < Len(code_lines)
  /\ ~limit_reached(all_vulnerabilities, max_vulnerabilities)
  /\ TakeLine(line_number + 1,
              scan_line_for_vulnerabilities(compiled_patterns, code_lines[line_number + 1],
                                            line_number + 1, fault))
  /\ UNCHANGED <<scanner_vars, aside_vars, input, code, code_lines, result, fault, prev>>

\* the iteration that finds the limit reached: break, then return the result
Break ==
  /\ pc = "loop"
  /\ line_number < Len(code_lines)
  /\ limit_reached(all_vulnerabilities, max_vulnerabilities)
  /\ result' = build_result(all_vulnerabilities)
  /\ pc' = "done"
  /\ UNCHANGED <<scanner_vars, aside_vars, input, code, code_lines, line_number,
                 all_vulnerabilities, scanned, fault, prev>>

\* the loop ends with the last line: return the result
Exhaust ==
  /\ pc = "loop"
  /\ line_number = Len(code_lines)
  /\ result' = build_result(all_vulnerabilities)
  /\ pc' = "done"
  /\ UNCHANGED <<scanner_vars, aside_vars, input, code, code_lines, line_number,
                 all_vulnerabilities, scanned, fault, prev>>

\* an observer keeps the text and the findings of a call that returned
Remember ==
  /\ pc = "done"
  /\ prev' = [seen |-> TRUE, others |-> FALSE, code |-> input,
              vulnerabilities |-> result.vulnerabilities]
  /\ UNCHANGED <<scanner_vars, aside_vars, pc, input, code, code_lines, line_number,
                 all_vulnerabilities, result, scanned, fault>>

\* the first call on a new scanner
FirstCall(text, flt) == pc = "idle" /\ Call(text, flt)

\* one call of scan_code on any text
Next ==
  \/ \E text \in Texts(Alphabet, MaxCodeLength + 1) : FirstCall(text, NoFault)
  \/ ScanLine
  \/ Break
  \/ Exhaust

Spec == Init /\ [][Next]_vars

\* two and more calls on the same scanner, an observer keeping one of them
NextPair ==
  \/ \E text \in SmallTexts : Call(text, NoFault)
  \/ ScanLine
  \/ Break
  \/ Exhaust
  \/ Remember

SpecPair == Init /\ [][NextPair]_vars

\* one call during which one rule raises on one line
NextFault ==
  \/ \E text \in SmallTexts :
       \E flt \in Faults(MaxSmallLen, Len(compiled_patterns)) : FirstCall(text, flt)
  \/ ScanLine
  \/ Break
  \/ Exhaust

SpecFault == Init /\ [][NextFault]_vars

\* one call on a text of repeated lines, under the size limit of the source
NextLines ==
  \/ \E text \in LineTexts : FirstCall(text, NoFault)
  \/ ScanLine
  \/ Break
  \/ Exhaust

SpecLines == InitLines /\ [][NextLines]_vars

\* one call on an example text, under the size limit of the source
NextExamples ==
  \/ \E text \in ExampleTexts : FirstCall(text, NoFault)
  \/ ScanLine
  \/ Break
  \/ Exhaust

SpecExamples == InitLines /\ [][NextExamples]_vars

\* ------------------------------------------------------------------------
\* Concurrent invocations of scan_code on the shared scanner
\* ------------------------------------------------------------------------

\* the locals of a sequential call
call_vars ==
  <<pc, input, code, code_lines, line_number, all_vulnerabilities, result,
    scanned, fault, prev>>

\* the texts of the concurrent invocations: empty, one line, three lines
ConcurrentTexts == {<<>>, <<"a">>, Repeat(<<"a">>, 3)}

\* an accumulator that all invocations share, the one of the first
shared_accumulator(cs, i) == cs[1].all_vulnerabilities

\* the accumulator is a local of the invocation
accumulator_of(cs, i) == cs[i].all_vulnerabilities

\* another invocation is inside its loop
Overlaps(i) == \E j \in Invocations \ {i} : calls[j].pc = "loop"

\* invocation i enters scan_code(text): size limit, split, empty accumulator
ConcurrentCall(i, text) ==
  /\ calls[i].pc = "idle"
  /\ calls' = [calls EXCEPT ![i] =
       [pc |-> "loop", input |-> text,
        code |-> truncate(text, max_code_length),
        code_lines |-> SplitLines(truncate(text, max_code_length)),
        line_number |-> 0,
        all_vulnerabilities |-> fresh_accumulator(calls[i].all_vulnerabilities),
        result |-> NoResult, overlapped |-> FALSE]]
  /\ UNCHANGED <<scanner_vars, call_vars, response, probe, request>>

\* invocation i scans its next line
ConcurrentScanLine(i) ==
  /\ calls[i].pc = "loop"
  /\ calls[i].line_number < Len(calls[i].code_lines)
  /\ ~limit_reached(accumulator_of(calls, i), max_vulnerabilities)
  /\ calls' = [calls EXCEPT ![i] =
       [calls[i] EXCEPT
          !.line_number = calls[i].line_number + 1,
          !.all_vulnerabilities =
             extend(accumulator_of(calls, i),
                    scan_line_for_vulnerabilities(
                      compiled_patterns,
                      calls[i].code_lines[calls[i].line_number + 1],
                      calls[i].line_number + 1, NoFault).found),
          !.overlapped = calls[i].overlapped \/ Overlaps(i)]]
  /\ UNCHANGED <<scanner_vars, call_vars, response, probe, request>>

\* invocation i finds the limit reached and returns
ConcurrentBreak(i) ==
  /\ calls[i].pc = "loop"
  /\ calls[i].line_number < Len(calls[i].code_lines)
  /\ limit_reached(accumulator_of(calls, i), max_vulnerabilities)
  /\ calls' = [calls EXCEPT ![i] =
       [calls[i] EXCEPT !.pc = "done",
                        !.result = build_result(accumulator_of(calls, i))]]
  /\ UNCHANGED <<scanner_vars, call_vars, response, probe, request>>

\* invocation i has scanned its last line and returns
ConcurrentExhaust(i) ==
  /\ calls[i].pc = "loop"
  /\ calls[i].line_number = Len(calls[i].code_lines)
  /\ calls' = [calls EXCEPT ![i] =
       [calls[i] EXCEPT !.pc = "done",
                        !.result = build_result(accumulator_of(calls, i))]]
  /\ UNCHANGED <<scanner_vars, call_vars, response, probe, request>>

\* the invocations run interleaved, line by line
NextConcurrent ==
  \/ \E i \in Invocations : \E text \in ConcurrentTexts : ConcurrentCall(i, text)
  \/ \E i \in Invocations : ConcurrentScanLine(i)
  \/ \E i \in Invocations : ConcurrentBreak(i)
  \/ \E i \in Invocations : ConcurrentExhaust(i)

SpecConcurrent == Init /\ [][NextConcurrent]_vars

\* ------------------------------------------------------------------------
\* Texts over the size limit of a request
\* ------------------------------------------------------------------------

\* the size limit of a request (100000 in the source, twice the 50000 of
\* max_code_length), on the scale of MaxCodeLength
RequestMaxLength == 2 * MaxCodeLength

\* n times the letter a
Run(n) == [k \in 1..n |-> "a"]

\* the texts of one, two or three lines of the letter a, up to one character
\* over the size limit of a request
LongTexts ==
  {Run(n) : n \in 0..(RequestMaxLength + 1)}
    \cup {Run(p[1]) \o <<"\n">> \o Run(p[2]) :
            p \in {q \in (0..RequestMaxLength) \X (0..RequestMaxLength) :
                     q[1] + q[2] <= RequestMaxLength}}
    \cup {Repeat(<<"a">>, 2) \o <<"\n">> \o Run(n) : n \in 0..(RequestMaxLength - 3)}

\* one call on a text that may exceed the size limit of a request
NextLong ==
  \/ \E text \in LongTexts : FirstCall(text, NoFault)
  \/ ScanLine
  \/ Break
  \/ Exhaust

SpecLong == Init /\ [][NextLong]_vars

\* ------------------------------------------------------------------------
\* Calls of _is_commented_line
\* ------------------------------------------------------------------------

\* length of the lines handed to _is_commented_line
MaxProbeLen == 4

\* the characters of those lines
CommentAlphabet == {"/", "*", " ", "#"}

\* lines with the marks of an HTML comment
HtmlLines ==
  {<<"<", "!", "-", "-", "-", "-", ">">>,
   <<"<", "!", "-", "-", "a", "-", "-", ">", "a">>,
   <<"<", "!", "-", "-", "-", ">">>,
   <<"-", "-", ">", "<", "!", "-", "-">>,
   <<" ", "<", "!", "-", "-", " ", "-", "-", ">">>}

ProbeLines == Texts(CommentAlphabet, MaxProbeLen) \cup HtmlLines

\* the calls: a line and an offset into it, the outcome not yet known
Probes ==
  {[line |-> q[1], offset |-> q[2], out |-> "none"] :
     q \in {r \in ProbeLines \X (0..(MaxProbeLen + 5)) : r[2] <= Len(r[1])}}

InitSuppressed == InitWith(MaxCodeLength) /\ probe \in Probes /\ request = NoRequest

\* _is_commented_line(line, match_position) is called and returns
IsCommentedLine ==
  /\ probe.out = "none"
  /\ probe' = [probe EXCEPT
       !.out = IF is_commented_line(probe.line, probe.offset) THEN "true" ELSE "false"]
  /\ UNCHANGED <<scanner_vars, call_vars, calls, response, request>>

NextSuppressed == IsCommentedLine

SpecSuppressed == InitSuppressed /\ [][NextSuppressed]_vars

\* ------------------------------------------------------------------------
\* The handler of POST /scan (main.py), which has a scanner of its own
\* ------------------------------------------------------------------------

\* . without re.DOTALL
DotNoNewline == NotSet({"\n"})

\* the patterns of main.py, in the order of the dictionary
main_get_vulnerability_patterns ==
  << \* \.innerHTML\s*=\s*[^;]+
     [name |-> "innerHTML_assignment",
      regex |-> Str(<<".", "i", "n", "n", "e", "r", "H", "T", "M", "L">>)
                  \o <<Rep(Set(Whitespace), 0), Set({"="}), Rep(Set(Whitespace), 0),
                       Rep(NotSet({";"}), 1)>>],
     \* document\.write\([^)]+\)
     [name |-> "document_write_call",
      regex |-> Str(<<"d", "o", "c", "u", "m", "e", "n", "t", ".", "w", "r", "i", "t", "e", "(">>)
                  \o <<Rep(NotSet({")"}), 1), Set({")"})>>],
     \* eval\([^)]+\)
     [name |-> "eval_function_call",
      regex |-> Str(<<"e", "v", "a", "l", "(">>) \o <<Rep(NotSet({")"}), 1), Set({")"})>>],
     \* location\.hash
     [name |-> "location_hash_usage",
      regex |-> Str(<<"l", "o", "c", "a", "t", "i", "o", "n", ".", "h", "a", "s", "h">>)],
     \* <script[^>]*>
     [name |-> "script_tag_injection",
      regex |-> Str(<<"<", "s", "c", "r", "i", "p", "t">>)
                  \o <<Rep(NotSet({">"}), 0), Set({">"})>>],
     \* onerror\s*=|onload\s*=|onclick\s*=
     [name |-> "on_event_handler",
      regex |-> <<Alt(<<Str(<<"o", "n", "e", "r", "r", "o", "r">>)
                          \o <<Rep(Set(Whitespace), 0), Set({"="})>>,
                        Str(<<"o", "n", "l", "o", "a", "d">>)
                          \o <<Rep(Set(Whitespace), 0), Set({"="})>>,
                        Str(<<"o", "n", "c", "l", "i", "c", "k">>)
                          \o <<Rep(Set(Whitespace), 0), Set({"="})>>>>)>>],
     \* javascript:\s*[^\x22\']+
     [name |-> "javascript_protocol",
      regex |-> Str(<<"j", "a", "v", "a", "s", "c", "r", "i", "p", "t", ":">>)
                  \o <<Rep(Set(Whitespace), 0), Rep(NotSet({"\"", "'"}), 1)>>],
     \* \.innerHTML\s*=\s*.*(\+.*userInput|\+.*req\.body|\+.*req\.query)
     [name |-> "unescaped_user_input",
      regex |-> Str(<<".", "i", "n", "n", "e", "r", "H", "T", "M", "L">>)
                  \o <<Rep(Set(Whitespace), 0), Set({"="}), Rep(Set(Whitespace), 0),
                       Rep(DotNoNewline, 0)>>
                  \o <<Alt(<<<<Set({"+"}), Rep(DotNoNewline, 0)>>
                               \o Str(<<"u", "s", "e", "r", "I", "n", "p", "u", "t">>),
                             <<Set({"+"}), Rep(DotNoNewline, 0)>>
                               \o Str(<<"r", "e", "q", ".", "b", "o", "d", "y">>),
                             <<Set({"+"}), Rep(DotNoNewline, 0)>>
                               \o Str(<<"r", "e", "q", ".", "q", "u", "e", "r", "y">>)>>)>>] >>

\* ^\s*//   ^\s*#   /\*.*\*/
main_comment_patterns ==
  << <<Bol, Rep(Set(Whitespace), 0), Set({"/"}), Set({"/"})>>,
     <<Bol, Rep(Set(Whitespace), 0), Set({"#"})>>,
     <<Set({"/"}), Set({"*"}), Rep(DotNoNewline, 0), Set({"*"}), Set({"/"})>> >>

\* is_commented_line of main.py
main_is_commented_line(line, match_position) ==
  \E p \in 1..Len(main_comment_patterns) :
    Search(main_comment_patterns[p], Prefix(line, match_position))

\* the dictionaries appended for the matches kept (no description)
main_findings(name, line, number, kept) ==
  [i \in 1..Len(kept) |->
     [line |-> number,
      vulnerability_type |-> name,
      snippet |-> Strip(SubSeq(line, kept[i][1], kept[i][2] - 1)),
      confidence |-> "medium"]]

\* the loop over the patterns from number r on
RECURSIVE main_scan_rules_from(_, _, _, _)
main_scan_rules_from(patterns, r, line, number) ==
  IF r > Len(patterns) THEN <<>>
  ELSE main_findings(patterns[r].name, line, number,
                     SelectSeq(FindIter(patterns[r].regex, line),
                               LAMBDA m : ~main_is_commented_line(line, m[1] - 1)))
         \o main_scan_rules_from(patterns, r + 1, line, number)

\* scan_line_for_vulnerabilities of main.py
main_scan_line_for_vulnerabilities(line, number, patterns) ==
  main_scan_rules_from(patterns, 1, line, number)

\* the loop of scan_for_xss over the lines from number n on: every line is
\* scanned, there is no cap
RECURSIVE main_scan_lines_from(_, _)
main_scan_lines_from(lines, n) ==
  IF n > Len(lines) THEN <<>>
  ELSE main_scan_line_for_vulnerabilities(lines[n], n, main_get_vulnerability_patterns)
         \o main_scan_lines_from(lines, n + 1)

\* the dictionary scan_for_xss returns for request.code = text
scan_for_xss(text) ==
  build_result(main_scan_lines_from(SplitLines(text), 1))

\* the texts of the requests: the example texts and the longest texts of one
\* repeated line
RequestTexts ==
  ExampleTexts \cup {Repeat(line, MaxLines) : line \in SampleLines}

\* POST /scan with the text the engine has scanned
ScanForXss ==
  /\ pc = "done"
  /\ response = NoResult
  /\ response' = scan_for_xss(input)
  /\ UNCHANGED <<scanner_vars, call_vars, calls, probe, request>>

\* a text is scanned by the engine, then sent to the handler
NextHandler ==
  \/ \E text \in RequestTexts : FirstCall(text, NoFault)
  \/ ScanLine
  \/ Break
  \/ Exhaust
  \/ ScanForXss

SpecHandler == InitLines /\ [][NextHandler]_vars

\* ------------------------------------------------------------------------
\* Validation of the code of a request (XSSScanRequest of models.py)
\* ------------------------------------------------------------------------

\* scaled-down length limit of a line of the code (10000 in the source)
MaxLineLength == 16

\* max_length of the field (100000 in the source, ten times the limit of a
\* line), on the scale of MaxLineLength
FieldMaxLength == 10 * MaxLineLength

\* min_length of the field
FieldMinLength == 1

\* number of lines of the codes given to the validation
MaxRequestLines == 2

\* the piece of s before position i and the pieces after it
RECURSIVE split(_, _)
split_at(s, sep, i) ==
  <<SubSeq(s, 1, i - 1)>> \o split(SubSeq(s, i + 1, Len(s)), sep)

\* str.split(sep) for a separator of one character
split(s, sep) ==
  IF \E i \in 1..Len(s) : s[i] = sep
  THEN split_at(s, sep, Min({i \in 1..Len(s) : s[i] = sep}))
  ELSE <<s>>

\* <script[^>]*>.*alert.*</script>   javascript:.*alert   eval\(.*alert
dangerous_patterns ==
  << Str(<<"<", "s", "c", "r", "i", "p", "t">>)
       \o <<Rep(NotSet({">"}), 0), Set({">"}), Rep(DotNoNewline, 0)>>
       \o Str(<<"a", "l", "e", "r", "t">>)
       \o <<Rep(DotNoNewline, 0)>>
       \o Str(<<"<", "/", "s", "c", "r", "i", "p", "t", ">">>),
     Str(<<"j", "a", "v", "a", "s", "c", "r", "i", "p", "t", ":">>)
       \o <<Rep(DotNoNewline, 0)>>
       \o Str(<<"a", "l", "e", "r", "t">>),
     Str(<<"e", "v", "a", "l", "(">>)
       \o <<Rep(DotNoNewline, 0)>>
       \o Str(<<"a", "l", "e", "r", "t">>) >>

\* validate_code(cls, v): how the function is left.  The name logger is not
\* defined in models.py, so the call logger.warning raises NameError.
validate_code(v) ==
  IF Strip(v) = <<>> THEN "ValueError"
  ELSE IF \E n \in 1..Len(split(v, "\n")) : Len(split(v, "\n")[n]) > MaxLineLength
  THEN "ValueError"
  ELSE IF \E p \in 1..Len(dangerous_patterns) : Search(dangerous_patterns[p], v)
  THEN "NameError"
  ELSE "returned"

\* the outcome of validate_code as the outcome of the construction: a
\* ValueError of the validator becomes a validation error
constructed(v, left) ==
  IF left = "ValueError" THEN [code |-> v, outcome |-> "ValidationError"]
  ELSE IF left = "NameError" THEN [code |-> v, outcome |-> "NameError"]
  ELSE [code |-> v, outcome |-> "accepted", value |-> v]

\* XSSScanRequest(code=code): the constraints of the field, then the validator
XSSScanRequest(v) ==
  IF Len(v) < FieldMinLength \/ Len(v) > FieldMaxLength
  THEN [code |-> v, outcome |-> "ValidationError"]
  ELSE constructed(v, validate_code(v))

\* the lines the codes are made of
RequestLines ==
  {<<>>, <<" ">>, <<"a">>, Run(MaxLineLength), Run(MaxLineLength + 1),
   <<"e", "v", "a", "l", "(", "a", "l", "e", "r", "t">>,
   <<"E", "V", "A", "L", "(", " ", "A", "l", "e", "r", "t">>,
   <<"j", "a", "v", "a", "s", "c", "r", "i", "p", "t", ":", "a", "l", "e", "r", "t">>,
   <<"<", "s", "c", "r", "i", "p", "t">>,
   <<">", "a", "l", "e", "r", "t", "<", "/", "s", "c", "r", "i", "p", "t", ">">>}

\* the codes: up to MaxRequestLines lines, and lines of the greatest length
\* up to the length limit of the field and beyond it
RequestCodes ==
  {Joined(ls) : ls \in Texts(RequestLines, MaxRequestLines)}
    \cup {Repeat(Run(MaxLineLength), FieldMaxLength \div MaxLineLength),
          Repeat(Run(MaxLineLength), (FieldMaxLength \div MaxLineLength) - 1)}

InitRequest ==
  /\ InitWith(MaxCodeLength)
  /\ probe = NoProbe
  /\ request \in {[code |-> c, outcome |-> "none"] : c \in RequestCodes}

\* a request is constructed from the code
Construct ==
  /\ request.outcome = "none"
  /\ request' = XSSScanRequest(request.code)
  /\ UNCHANGED <<scanner_vars, call_vars, calls, response, probe>>

NextRequest == Construct

SpecRequest == InitRequest /\ [][NextRequest]_vars

\* ------------------------------------------------------------------------
\* scan_code as a function of the text it scans
\* ------------------------------------------------------------------------

\* the loop of scan_code from line number n on: the accumulator at its end
RECURSIVE scan_lines_from(_, _, _, _, _)
scan_lines_from(patterns, lines, n, found, limit) ==
  IF n > Len(lines) \/ Len(found) >= limit THEN found
  ELSE scan_lines_from(patterns, lines, n + 1,
         found \o scan_line_for_vulnerabilities(patterns, lines[n], n, NoFault).found,
         limit)

\* the findings of a scan of text by a scanner with this catalog and cap
ScanOf(patterns, text, limit) ==
  scan_lines_from(patterns, SplitLines(text), 1, <<>>, limit)

\* ------------------------------------------------------------------------
\* Properties
\* ------------------------------------------------------------------------

Returned == pc = "done"

\* the number of the rule called name in the catalog
RuleIndex(name) == CHOOSE r \in 1..Len(compiled_patterns) : compiled_patterns[r].name = name

\* the findings of rule name on line number ln, in the order of found
OfRule(found, ln, name) ==
  SelectSeq(found, LAMBDA f : f.line = ln /\ f.vulnerability_type = name)

\* the set of line numbers handed to the line scanner
ScannedLines == {scanned[i] : i \in 1..Len(scanned)}

\* C1: the finding count of a returned result never exceeds
\* max_vulnerabilities, also when one line yields several findings while the
\* accumulator is below the cap.
C1_CountWithinCap ==
  Returned => result.vulnerabilities_found <= max_vulnerabilities

\* C2: scan_code does not return a result for a text that is empty or only
\* whitespace (it fails with InvalidInput).
C2_BlankInputRejected ==
  ~(Returned /\ Strip(input) = <<>>)

WithoutGuard(nodes) ==
  IF Len(nodes) > 0 /\ Head(nodes).k = "lookbehind" THEN Tail(nodes) ELSE nodes

RECURSIVE MeantMatches(_, _)
MeantMatches(line, r) ==
  IF r = 0 THEN 0
  ELSE Len(FindIter(WithoutGuard(Parse(vulnerability_patterns[r].pattern)), line))
         + MeantMatches(line, r - 1)

TriggersOne(line) ==
  /\ \A i \in 1..Len(line) : line[i] # "/"
  /\ MeantMatches(line, Len(vulnerability_patterns)) = 1

\* C4: for N > max_vulnerabilities lines that each trigger one finding, the
\* result has exactly max_vulnerabilities findings, none of a line beyond the
\* cut-off line.
C4_CapExact ==
  (/\ Returned
   /\ Len(code_lines) > max_vulnerabilities
   /\ TriggersOne(code_lines[1])
   /\ \A n \in 1..Len(code_lines) : code_lines[n] = code_lines[1]) =>
    /\ Len(result.vulnerabilities) = max_vulnerabilities
    /\ \A i \in 1..Len(result.vulnerabilities) :
         result.vulnerabilities[i].line <= max_vulnerabilities

\* C5: once the accumulator holds max_vulnerabilities findings or more, the
\* loop hands no further line to the line scanner, and the call returns a
\* success result.
C5_StopAtCap ==
  [][(pc = "loop" /\ Len(all_vulnerabilities) >= max_vulnerabilities) =>
       /\ scanned' = scanned
       /\ pc' = "done"
       /\ result'.status = "success"
       /\ result'.vulnerabilities = all_vulnerabilities]_vars

\* C5 witness: a call returned with lines left that were never scanned
C5_Witness ==
  /\ Returned
  /\ result.status = "success"
  /\ Len(all_vulnerabilities) >= max_vulnerabilities
  /\ Len(scanned) < Len(code_lines)
  /\ ScannedLines = 1..Len(scanned)

\* C6: the findings of a result are in discovery order: line numbers never
\* decrease, and within a line the findings of an earlier rule of the catalog
\* come before those of a later rule, wherever in the line they matched.
\* (Stated on neighbours; the order is transitive.)
C6_DiscoveryOrder ==
  Returned =>
    \A i \in 1..(Len(result.vulnerabilities) - 1) :
      LET f == result.vulnerabilities[i]
          g == result.vulnerabilities[i + 1]
      IN  \/ f.line < g.line
          \/ /\ f.line = g.line
             /\ RuleIndex(f.vulnerability_type) <= RuleIndex(g.vulnerability_type)

\* C6 witness: findings of two lines, and on one line a match of an earlier
\* rule at the end of the line (empty snippet) in front of a match of a later
\* rule at the start of the line
C6_Witness ==
  /\ Returned
  /\ \E i \in 1..(Len(result.vulnerabilities) - 1) :
       /\ result.vulnerabilities[i].line = result.vulnerabilities[i + 1].line
       /\ RuleIndex(result.vulnerabilities[i].vulnerability_type)
            < RuleIndex(result.vulnerabilities[i + 1].vulnerability_type)
       /\ result.vulnerabilities[i].snippet = <<>>
       /\ result.vulnerabilities[i + 1].snippet # <<>>
  /\ \E i \in 1..(Len(result.vulnerabilities) - 1) :
       result.vulnerabilities[i].line < result.vulnerabilities[i + 1].line

\* C7: every result returned has status "success" and a
\* vulnerabilities_found equal to the length of its vulnerabilities.
C7_SuccessAndCount ==
  Returned =>
    /\ result.status = "success"
    /\ result.vulnerabilities_found = Len(result.vulnerabilities)
    /\ result.vulnerabilities = all_vulnerabilities

\* C7 witness: a result with more findings than the cap
C7_Witness ==
  /\ Returned
  /\ result.vulnerabilities_found > max_vulnerabilities

\* C8: two calls on the same text, whatever other calls the scanner served
\* in between, return the same findings in the same order.
C8_Deterministic ==
  (Returned /\ prev.seen /\ prev.code = input) =>
    result.vulnerabilities = prev.vulnerabilities

\* C8 witness: the text of an earlier call scanned again after a call on
\* another text, with findings
C8_Witness ==
  /\ Returned
  /\ prev.seen
  /\ prev.others
  /\ prev.code = input
  /\ Len(result.vulnerabilities) > 0

\* C9: a rule whose pattern cannot be compiled is replaced by a rule that
\* matches nothing: it contributes no finding to any scan.
C9_BadRuleFindsNothing ==
  Returned =>
    \A i \in 1..Len(result.vulnerabilities) :
      Compiles(Parse(vulnerability_patterns[
        RuleIndex(result.vulnerabilities[i].vulnerability_type)].pattern))

\* C10: a rule that raises while a line is matched does not end the scan:
\* the call returns a success result, every line is scanned until the cap is
\* reached, and on every scanned line every other rule has all its findings.
C10_FaultContained ==
  /\ pc # "raised"
  /\ Returned =>
       /\ result.status = "success"
       /\ \A ln \in 1..Len(code_lines) :
            IF ln \in ScannedLines
            THEN \A r \in 1..Len(compiled_patterns) :
                   (fault.line = ln /\ fault.rule = r) \/
                   OfRule(result.vulnerabilities, ln, compiled_patterns[r].name)
                     = match_findings(compiled_patterns[r].name, code_lines[ln], ln,
                                      FindIter(Parse(compiled_patterns[r].regex), code_lines[ln]))
            ELSE Len(SelectSeq(result.vulnerabilities, LAMBDA f : f.line < ln))
                   >= max_vulnerabilities

\* C10 witness: a rule raised on a scanned line and lost a finding, later
\* rules found on that line and a later line was scanned
C10_Witness ==
  /\ Returned
  /\ fault.line \in ScannedLines
  /\ fault.rule < Len(compiled_patterns)
  /\ Len(OfRule(result.vulnerabilities, fault.line, compiled_patterns[fault.rule].name))
       < Len(FindIter(Parse(compiled_patterns[fault.rule].regex), code_lines[fault.line]))
  /\ \E i \in 1..Len(result.vulnerabilities) :
       /\ result.vulnerabilities[i].line = fault.line
       /\ RuleIndex(result.vulnerabilities[i].vulnerability_type) > fault.rule
  /\ \E i \in 1..Len(result.vulnerabilities) :
       result.vulnerabilities[i].line > fault.line

\* the line holds an assignment to innerHTML
HasAssignment(line) == Search(WithoutGuard(Pat_innerHTML_assignment), line)

\* the line begins with //, optionally after whitespace
BeginsWithSlashes(line) == Search(comment_patterns[1], line)

\* C11: the scan of a line that begins with // (optionally after
\* whitespace) and holds an innerHTML assignment yields 0 findings; the scan
\* of the line without the leading // yields at least one finding of the
\* rule innerHTML_assignment.
C11_CommentSuppression ==
  (Returned /\ Len(code_lines) = 1 /\ HasAssignment(code_lines[1])) =>
    IF BeginsWithSlashes(code_lines[1])
    THEN result.vulnerabilities_found = 0
    ELSE \E i \in 1..Len(result.vulnerabilities) :
           result.vulnerabilities[i].vulnerability_type = "innerHTML_assignment"

\* C12: the scan of the single line
\* document.getElementById(\x22content\x22).innerHTML = userInput; yields
\* exactly one finding, of the rule innerHTML_assignment on line 1; no other
\* rule of the catalog reports on the line.
C12_BasicDetection ==
  (Returned /\ code_lines = <<BasicLine>>) =>
    /\ Len(result.vulnerabilities) = 1
    /\ result.vulnerabilities[1].vulnerability_type = "innerHTML_assignment"
    /\ result.vulnerabilities[1].line = 1

\* the pattern the catalog means for the rule called name matches the line
MeantToMatch(name, line) ==
  Search(WithoutGuard(Parse(vulnerability_patterns[RuleIndex(name)].pattern)), line)

\* C13: no rule of the catalog reports on a line that its pattern, as the
\* catalog means it, does not match; a text without a tracked sink (an
\* assignment to textContent, markup with console.log) yields 0 findings.
C13_NoSinkNoFinding ==
  Returned =>
    \A i \in 1..Len(result.vulnerabilities) :
      MeantToMatch(result.vulnerabilities[i].vulnerability_type,
                   code_lines[result.vulnerabilities[i].line])

\* C14: when truncation activates, the result returned carries it as
\* metadata: for a text longer than max_code_length the result has a scanned
\* length, and it equals max_code_length, not the length of the text.
C14_TruncationRecorded ==
  (Returned /\ Len(input) > max_code_length) =>
    /\ "code_length" \in DOMAIN result
    /\ result.code_length = max_code_length

\* C15: however two or more concurrent invocations of scan_code on the
\* shared scanner interleave, the catalog (patterns, compiled patterns) and
\* the numeric limits stay as constructed, and the result of each invocation
\* is the result of the same call run alone.
C15_ConcurrentScans ==
  /\ vulnerability_patterns = get_vulnerability_patterns
  /\ compiled_patterns = compile_patterns(get_vulnerability_patterns)
  /\ max_code_length = MaxCodeLength
  /\ max_vulnerabilities = MaxVulnerabilities
  /\ \A i \in Invocations :
       calls[i].pc = "done" =>
         calls[i].result
           = build_result(ScanOf(compiled_patterns,
                                 Prefix(calls[i].input, max_code_length),
                                 max_vulnerabilities))

\* C15 witness: two invocations on different texts have returned findings,
\* each having scanned a line while the other was inside its loop
C15_Witness ==
  /\ calls[1].pc = "done"
  /\ calls[2].pc = "done"
  /\ calls[1].overlapped
  /\ calls[2].overlapped
  /\ calls[1].input # calls[2].input
  /\ calls[1].result.vulnerabilities_found > 0
  /\ calls[2].result.vulnerabilities_found > 0

\* C16: scan_code on a text longer than the size limit of a request (100000
\* characters) is rejected: it raises and returns no result.
C16_OversizeRejected ==
  ~(Returned /\ Len(input) > RequestMaxLength)

\* C17: a sink that occurs only inside a quoted string literal of a line,
\* as in var code = \x22x.innerHTML = a;\x22; produces no finding: the scan
\* of such a text yields 0 findings.
C17_StringLiteralIgnored ==
  (Returned /\ Len(code_lines) > 0
     /\ \A n \in 1..Len(code_lines) : code_lines[n] = LiteralLine) =>
    result.vulnerabilities_found = 0

\* s holds mark at position i
HoldsAt(s, mark, i) ==
  /\ i + Len(mark) - 1 <= Len(s)
  /\ \A k \in 1..Len(mark) : s[i + k - 1] = mark[k]

\* s begins with mark, after optional whitespace
BeginsWith(s, mark) ==
  \E i \in 1..Len(s) :
    /\ HoldsAt(s, mark, i)
    /\ \A k \in 1..(i - 1) : s[k] \in Whitespace

\* s holds a block opened by open and closed, after it, by close
HoldsClosedBlock(s, open, close) ==
  \E i \in 1..Len(s) : \E j \in (i + Len(open))..Len(s) :
    HoldsAt(s, open, i) /\ HoldsAt(s, close, j)

\* s is, or holds, a comment
Commented(s) ==
  \/ BeginsWith(s, <<"/", "/">>)
  \/ BeginsWith(s, <<"#">>)
  \/ HoldsClosedBlock(s, <<"/", "*">>, <<"*", "/">>)
  \/ HoldsClosedBlock(s, <<"<", "!", "-", "-">>, <<"-", "-", ">">>)

\* C18: _is_commented_line(line, offset) is true if and only if the prefix of
\* the line before offset begins with // or with # after optional whitespace,
\* or holds a closed /* */ block or a closed HTML comment block; the text at
\* or after offset has no influence.
C18_SuppressedIff ==
  probe.out # "none" =>
    (probe.out = "true" <=> Commented(Prefix(probe.line, probe.offset)))

\* C18 witness: a call that returned false on a line that is commented as
\* a whole, the comment mark ending only after offset
C18_Witness ==
  /\ probe.out = "false"
  /\ probe.offset > 0
  /\ Commented(probe.line)

\* the findings of the line scanner for the lines 1..k of lines, each with
\* its line number, one after the other
RECURSIVE LineByLine(_, _, _)
LineByLine(patterns, lines, k) ==
  IF k = 0 THEN <<>>
  ELSE LineByLine(patterns, lines, k - 1)
         \o scan_line_for_vulnerabilities(patterns, lines[k], k, NoFault).found

\* a finding without its line number
Unnumbered(f) == [f EXCEPT !.line = 0]

\* the findings of line number ln, without the line number
OfLine(found, ln) ==
  LET own == SelectSeq(found, LAMBDA f : f.line = ln)
  IN  [i \in 1..Len(own) |-> Unnumbered(own[i])]

\* C19: until the cap stops the iteration, the findings of scan_code are the
\* findings of the line scanner for line 1, line 2, ... in order, each with
\* its 1-based line number; the findings of a line depend on the text of that
\* line only, so a block comment opened on an earlier line and closed on a
\* later one does not suppress a match on a line between them.
C19_LineByLine ==
  Returned =>
    /\ scanned = [i \in 1..Len(scanned) |-> i]
    /\ result.vulnerabilities
         = LineByLine(compiled_patterns, SplitLines(code), Len(scanned))
    /\ Len(scanned) < Len(SplitLines(code)) =>
         Len(result.vulnerabilities) >= max_vulnerabilities
    /\ \A i \in 1..Len(scanned) : \A j \in 1..Len(scanned) :
         code_lines[i] = code_lines[j] =>
           OfLine(result.vulnerabilities, i) = OfLine(result.vulnerabilities, j)

\* C19 witness: an assignment on the line after the one that opens a block
\* comment, closed on the line after it, reported as when it stands alone
C19_Witness ==
  /\ Returned
  /\ code_lines = <<CommentOpenLine, AssignmentLine, CommentCloseLine>>
  /\ Len(scanned) = 2
  /\ OfLine(result.vulnerabilities, 2)
       = OfLine(scan_line_for_vulnerabilities(compiled_patterns, AssignmentLine, 1,
                                              NoFault).found, 1)
  /\ \E i \in 1..Len(result.vulnerabilities) :
       /\ result.vulnerabilities[i].line = 2
       /\ result.vulnerabilities[i].vulnerability_type = "innerHTML_assignment"
       /\ result.vulnerabilities[i].snippet = AssignmentLine

\* what a finding says: its line, its rule and its snippet
Said(found) ==
  [i \in 1..Len(found) |->
     [line |-> found[i].line,
      vulnerability_type |-> found[i].vulnerability_type,
      snippet |-> found[i].snippet]]

\* C20: the handler of /scan obtains its result from scan_code of the
\* engine: for every request text its findings are the findings of the engine
\* for that text (same rules, same comment filter), so they obey the
\* truncation and the cap of the engine.
C20_HandlerUsesEngine ==
  response.status # "none" =>
    /\ response.status = result.status
    /\ response.vulnerabilities_found = result.vulnerabilities_found
    /\ Said(response.vulnerabilities) = Said(result.vulnerabilities)

\* every character of the code is white space
WhitespaceOnly(v) == \A i \in 1..Len(v) : v[i] \in Whitespace

\* the code has more than MaxLineLength characters in a row without a
\* line feed
HasLongLine(v) ==
  \E i \in 1..Len(v) :
    /\ i + MaxLineLength <= Len(v)
    /\ \A k \in i..(i + MaxLineLength) : v[k] # "\n"

\* C21: the construction of an XSSScanRequest ends in a validation error
\* exactly for the codes that are whitespace-only or have a line longer than
\* the length limit of a line; every other code, one that matches a dangerous
\* pattern included, is returned unchanged and nothing is raised.
C21_RejectsExactly ==
  request.outcome # "none" =>
    IF WhitespaceOnly(request.code) \/ HasLongLine(request.code)
    THEN request.outcome = "ValidationError"
    ELSE request.outcome = "accepted" /\ request.value = request.code

\* a character that a comment mark begins with stands in front of offset
MarkBefore(line, offset) ==
  \E i \in 1..offset : line[i] \in {"/", "#", "<"}

\* C22: a match at offset 0 of its line is never suppressed by the comment
\* filter, whatever the line holds, the inspected prefix being empty; a
\* match is suppressed only by a comment mark that begins in front of it.
C22_StartOfLineKept ==
  probe.out # "none" =>
    /\ probe.offset = 0 => probe.out = "false"
    /\ probe.out = "true" => MarkBefore(probe.line, probe.offset)

\* C22 witness: the filter returned false at offset 0 of a line that begins
\* with #
C22_Witness ==
  /\ probe.out = "false"
  /\ probe.offset = 0
  /\ Len(probe.line) > 1
  /\ probe.line[1] = "#"

\* the number of findings that carry line number ln
CountOfLine(found, ln) == Len(SelectSeq(found, LAMBDA f : f.line = ln))

\* the number of findings contributed by the last line handed to the line
\* scanner
LastLineCount(found, lines) ==
  IF lines = <<>> THEN 0 ELSE CountOfLine(found, lines[Len(lines)])

\* C23: whenever the line scanner is invoked on a line, the accumulator holds
\* fewer than max_vulnerabilities findings; so the count of a returned result
\* less the findings of the last scanned line is below max_vulnerabilities:
\* what exceeds the cap comes from one line.
C23_BelowCapAtEachLine ==
  [][/\ Len(scanned') = Len(scanned) + 1 =>
          Len(all_vulnerabilities) < max_vulnerabilities
     /\ pc' = "done" =>
          Len(all_vulnerabilities') - LastLineCount(all_vulnerabilities', scanned')
            < max_vulnerabilities]_vars

\* C23 witness: a call returned more findings than max_vulnerabilities after
\* it scanned more than one line
C23_Witness ==
  /\ Returned
  /\ Len(scanned) > 1
  /\ Len(result.vulnerabilities) > max_vulnerabilities
  /\ LastLineCount(result.vulnerabilities, scanned) > 0

====
